---- MODULE Spec2Model ----
(***************************************************************************)
(* SNARE, EditorUI/TrackAbstract.py: the signal/slot relay tree.  A node   *)
(* is a TrackAbstract object.  Its constructor connects its upward signals *)
(* to its parent's slots and its parent's downward signals to its own      *)
(* slots; every default slot re-emits the signal of its own name.  Signals *)
(* are Qt direct connections: emit() calls the connected slots one after   *)
(* another, in connection order, on the emitting thread, and returns when  *)
(* the last slot has returned.  The call stack is modelled explicitly.     *)
(***************************************************************************)
EXTENDS Integers, Sequences, FiniteSets, TLC

\* ------------------------------------------------------------------ bounds
\* Largest number of objects constructed in one behaviour (where nodes also
\* unsubscribe: of constructions and teardowns together).
MaxNodes == 4

\* Longest run of consecutive emissions on one channel that the trace keeps.
MaxBurst == 2

\* The values a payload field is drawn from (bool fields: 0 and 1).
FieldValues == {1, 2}

\* None, the value of self.root of a node constructed without a root.
None == 0

\* ------------------------------------------------- signals (class attributes)
\* Each signal with the argument types of its pyqtSignal declaration.
SignalDecls ==
  << <<"sig_mousePress", <<"QGraphicsSceneMouseEvent">>>>,
     <<"sig_mouseRelease", <<"QGraphicsSceneMouseEvent">>>>,
     <<"sig_mouseMove", <<"QGraphicsSceneMouseEvent">>>>,
     <<"sig_mouseDoubleClick", <<"QGraphicsSceneMouseEvent">>>>,
     <<"sig_keyEnter", <<"QKeyEvent">>>>,
     <<"sig_keyRelease", <<"QKeyEvent">>>>,
     <<"sig_playpause", <<>>>>,
     <<"sig_zoomIn", <<>>>>,
     <<"sig_zoomOut", <<>>>>,
     <<"sig_analyze", <<>>>>,
     <<"sig_finishSelection", <<>>>>,
     <<"sig_editSelection", <<>>>>,
     <<"sig_selectionChange", <<"str", "str">>>>,
     <<"sig_skipForward", <<>>>>,
     <<"sig_skipBackward", <<>>>>,
     <<"sig_delete", <<>>>>,
     <<"sig_requestMark", <<>>>>,
     <<"sig_requestWaveform", <<"int", "int", "int">>>>,
     <<"sig_viewChanged", <<"QRectF">>>>,
     <<"sig_redraw", <<"float">>>>,
     <<"sig_startSelection", <<"QGraphicsSceneMouseEvent">>>>,
     <<"sig_moveSelection", <<"QGraphicsSceneMouseEvent">>>>,
     <<"sig_endSelection", <<"QGraphicsSceneMouseEvent">>>>,
     <<"sig_enableSelection", <<"bool">>>>,
     <<"sig_setSelection", <<"str", "str", "dict", "str">>>>,
     <<"sig_setMark", <<"int">>>>,
     <<"sig_addWaveform", <<"Waveform">>>>,
     <<"sig_setView", <<"QRectF">>>>,
     <<"sig_update", <<"float">>>>,
     <<"sig_setPlaying", <<"bool">>>> >>

Signals == {SignalDecls[i][1] : i \in 1..Len(SignalDecls)}

SignatureOf ==
  [sig \in Signals |->
     SignalDecls[CHOOSE j \in 1..Len(SignalDecls) : SignalDecls[j][1] = sig][2]]

Signature(sig) == SignatureOf[sig]

\* ------------------------------------------------ connections of __init__
\* self.sig_X.connect(self.root.slo_Y), in the order of the constructor.
UpwardConnections ==
  << <<"sig_mousePress", "slo_mousePress">>,
     <<"sig_mouseRelease", "slo_mouseRelease">>,
     <<"sig_mouseMove", "slo_mouseMove">>,
     <<"sig_mouseDoubleClick", "slo_mouseDoubleClick">>,
     <<"sig_keyEnter", "slo_keyEnter">>,
     <<"sig_keyRelease", "slo_keyRelease">>,
     <<"sig_playpause", "slo_playpause">>,
     <<"sig_zoomIn", "slo_zoomIn">>,
     <<"sig_zoomOut", "slo_zoomOut">>,
     <<"sig_analyze", "slo_analyze">>,
     <<"sig_finishSelection", "slo_finishSelection">>,
     <<"sig_editSelection", "slo_editSelection">>,
     <<"sig_selectionChange", "slo_selectionChange">>,
     <<"sig_skipForward", "slo_skipForward">>,
     <<"sig_skipBackward", "slo_skipBackward">>,
     <<"sig_delete", "slo_delete">>,
     <<"sig_requestMark", "slo_requestMark">>,
     <<"sig_requestWaveform", "slo_requestWaveform">>,
     <<"sig_viewChanged", "slo_viewChanged">> >>

\* self.root.sig_X.connect(self.slo_Y), in the order of the constructor.
DownwardConnections ==
  << <<"sig_redraw", "slo_redraw">>,
     <<"sig_startSelection", "slo_startSelection">>,
     <<"sig_moveSelection", "slo_moveSelection">>,
     <<"sig_endSelection", "slo_endSelection">>,
     <<"sig_enableSelection", "slo_enableSelection">>,
     <<"sig_setSelection", "slo_setSelection">>,
     <<"sig_setMark", "slo_setMark">>,
     <<"sig_addWaveform", "slo_addWaveform">>,
     <<"sig_setView", "slo_setView">>,
     <<"sig_update", "slo_update">>,
     <<"sig_setPlaying", "slo_setPlaying">> >>

UpwardSignals == {UpwardConnections[i][1] : i \in 1..Len(UpwardConnections)}
DownwardSignals == {DownwardConnections[i][1] : i \in 1..Len(DownwardConnections)}

\* ------------------------------------------------------ default relay slots
\* The body of each slot, as the sequence of emit() calls it makes on self:
\* <<signal, arguments>>.
slo_mousePress(event) ==
  << <<"sig_mousePress", <<event>>>> >>

slo_mouseRelease(event) ==
  << <<"sig_mouseRelease", <<event>>>> >>

slo_mouseMove(event) ==
  << <<"sig_mouseMove", <<event>>>> >>

slo_mouseDoubleClick(event) ==
  << <<"sig_mouseDoubleClick", <<event>>>> >>

slo_keyEnter(event) ==
  << <<"sig_keyEnter", <<event>>>> >>

slo_keyRelease(event) ==
  << <<"sig_keyRelease", <<event>>>> >>

slo_playpause ==
  << <<"sig_playpause", <<>>>> >>

slo_zoomIn ==
  << <<"sig_zoomIn", <<>>>> >>

slo_zoomOut ==
  << <<"sig_zoomOut", <<>>>> >>

slo_analyze ==
  << <<"sig_analyze", <<>>>> >>

slo_finishSelection ==
  << <<"sig_finishSelection", <<>>>> >>

slo_editSelection ==
  << <<"sig_editSelection", <<>>>> >>

slo_selectionChange(selectionName, analysisType) ==
  << <<"sig_selectionChange", <<selectionName, analysisType>>>> >>

slo_skipForward ==
  << <<"sig_skipForward", <<>>>> >>

slo_skipBackward ==
  << <<"sig_skipBackward", <<>>>> >>

slo_delete ==
  << <<"sig_delete", <<>>>> >>

slo_requestMark ==
  << <<"sig_requestMark", <<>>>> >>

slo_requestWaveform(block, widthPreScaling, height) ==
  << <<"sig_requestWaveform", <<block, widthPreScaling, height>>>> >>

slo_viewChanged(rect) ==
  << <<"sig_viewChanged", <<rect>>>> >>

slo_redraw(factor) ==
  << <<"sig_redraw", <<factor>>>> >>

slo_startSelection(event) ==
  << <<"sig_startSelection", <<event>>>> >>

slo_moveSelection(event) ==
  << <<"sig_moveSelection", <<event>>>> >>

\* Mutant: the body of slo_moveSelection copied without changing the signal.
slo_endSelectionAsMove(event) ==
  << <<"sig_moveSelection", <<event>>>> >>

slo_endSelection(event) ==
  << <<"sig_endSelection", <<event>>>> >>

\* Mutant: relays only a true flag ("if flag:").
slo_enableSelectionIfSet(flag) ==
  IF flag = 0 THEN <<>> ELSE << <<"sig_enableSelection", <<flag>>>> >>

slo_enableSelection(flag) ==
  << <<"sig_enableSelection", <<flag>>>> >>

\* Mutant: the first two arguments change places.
slo_setSelectionSwapped(selectionName, analysisType, selection, state) ==
  << <<"sig_setSelection", <<analysisType, selectionName, selection, state>>>> >>

slo_setSelection(selectionName, analysisType, selection, state) ==
  << <<"sig_setSelection", <<selectionName, analysisType, selection, state>>>> >>

slo_setMark(smp) ==
  << <<"sig_setMark", <<smp>>>> >>

slo_addWaveform(waveform) ==
  << <<"sig_addWaveform", <<waveform>>>> >>

slo_setView(rect) ==
  << <<"sig_setView", <<rect>>>> >>

\* Mutant: the relay emits twice.
slo_updateTwice(pos) ==
  << <<"sig_update", <<pos>>>>, <<"sig_update", <<pos>>>> >>

slo_update(pos) ==
  << <<"sig_update", <<pos>>>> >>

slo_setPlaying(flag) ==
  << <<"sig_setPlaying", <<flag>>>> >>

\* Python's method call self.<slot>(*args) on a TrackAbstract object.
DefaultSlot(slot, args) ==
  CASE slot = "slo_mousePress" -> slo_mousePress(args[1])
    [] slot = "slo_mouseRelease" -> slo_mouseRelease(args[1])
    [] slot = "slo_mouseMove" -> slo_mouseMove(args[1])
    [] slot = "slo_mouseDoubleClick" -> slo_mouseDoubleClick(args[1])
    [] slot = "slo_keyEnter" -> slo_keyEnter(args[1])
    [] slot = "slo_keyRelease" -> slo_keyRelease(args[1])
    [] slot = "slo_playpause" -> slo_playpause
    [] slot = "slo_zoomIn" -> slo_zoomIn
    [] slot = "slo_zoomOut" -> slo_zoomOut
    [] slot = "slo_analyze" -> slo_analyze
    [] slot = "slo_finishSelection" -> slo_finishSelection
    [] slot = "slo_editSelection" -> slo_editSelection
    [] slot = "slo_selectionChange" -> slo_selectionChange(args[1], args[2])
    [] slot = "slo_skipForward" -> slo_skipForward
    [] slot = "slo_skipBackward" -> slo_skipBackward
    [] slot = "slo_delete" -> slo_delete
    [] slot = "slo_requestMark" -> slo_requestMark
    [] slot = "slo_requestWaveform" -> slo_requestWaveform(args[1], args[2], args[3])
    [] slot = "slo_viewChanged" -> slo_viewChanged(args[1])
    [] slot = "slo_redraw" -> slo_redraw(args[1])
    [] slot = "slo_startSelection" -> slo_startSelection(args[1])
    [] slot = "slo_moveSelection" -> slo_moveSelection(args[1])
    [] slot = "slo_endSelection" -> slo_endSelection(args[1])
    [] slot = "slo_enableSelection" -> slo_enableSelection(args[1])
    [] slot = "slo_setSelection" -> slo_setSelection(args[1], args[2], args[3], args[4])
    [] slot = "slo_setMark" -> slo_setMark(args[1])
    [] slot = "slo_addWaveform" -> slo_addWaveform(args[1])
    [] slot = "slo_setView" -> slo_setView(args[1])
    [] slot = "slo_update" -> slo_update(args[1])
    [] slot = "slo_setPlaying" -> slo_setPlaying(args[1])

\* ------------------------------------------------------------------- state
VARIABLES
  count,    \* number of objects constructed so far: the nodes are 1..count
  root,     \* root[n]: self.root of node n, a node or None
  conns,    \* conns[n][sig]: the slots connected to node n's signal sig, in
            \* connection order, each <<receiver node, slot name>>
  attr,     \* attr[n]: the members the constructor stored on node n
  cls,      \* cls[n]: the class of node n
  sel,      \* sel[n]: the selection state machine of a TrackSelection node
  detached, \* the nodes that have unsubscribed from their parent
  stack,    \* the call stack of the one thread: emit() frames and slot frames
  origin,   \* <<node, signal>> of the emissions the trace holds, or <<>>
  burst,    \* payloads emitted from outside on the channel origin, in order
  trace     \* what happened since the burst began: every emit() and slot call

vars == <<count, root, conns, attr, cls, sel, detached, stack, origin, burst, trace>>

objects == <<count, root, conns, attr, cls, sel, detached>>

Nodes == 1..count

\* Payloads of a signal: one tuple per value, the fields of a tuple all
\* different so that a field out of place shows; bool fields are 0 or 1.
Values(type) == IF type = "bool" THEN {0, 1} ELSE FieldValues

Payloads(sig) ==
  LET ts == Signature(sig)
  IN  IF ts = <<>> THEN {<<>>}
      ELSE IF Len(ts) = 1 THEN {<<v>> : v \in Values(ts[1])}
      ELSE {[i \in 1..Len(ts) |-> v + i - 1] : v \in FieldValues}

\* The arguments the n-th constructor call is given: ten different values.
ConstructorArgs(n) ==
  { [name |-> 10 * n, state |-> 10 * n + 1, selections |-> 10 * n + 2,
     analysisTypes |-> 10 * n + 3, marks |-> 10 * n + 4,
     cursorposition |-> 10 * n + 5, height |-> 10 * n + 6,
     width |-> 10 * n + 7, smptopix |-> 10 * n + 8, zoom |-> 10 * n + 9] }

\* Mutant: height and width are stored in each other's place.
MembersSwapped(a) ==
  [name |-> a.name, state |-> a.state, selections |-> a.selections,
   marks |-> a.marks, cursorposition |-> a.cursorposition,
   height |-> a.width, width |-> a.height, smptopix |-> a.smptopix,
   zoom |-> a.zoom]

\* "Parameters to members": what __init__ stores of its arguments.
Members(a) ==
  [name |-> a.name, state |-> a.state, selections |-> a.selections,
   marks |-> a.marks, cursorposition |-> a.cursorposition,
   height |-> a.height, width |-> a.width, smptopix |-> a.smptopix,
   zoom |-> a.zoom]

\* A freshly created object has no connection on any of its signals.
NoConnections == [sig \in Signals |-> <<>>]

\* ------------------------------------------- the selection state machine
\* A TrackSelection node overrides the selection slots of TrackAbstract.
NoMachine == [state |-> "NoMachine", enabled |-> FALSE, start |-> 0, end |-> 0]

IdleMachine == [state |-> "Idle", enabled |-> TRUE, start |-> 0, end |-> 0]

Min(a, b) == IF a <= b THEN a ELSE b
Max(a, b) == IF a <= b THEN b ELSE a

\* The payload of the SetSelection a committed drag emits: name, analysis
\* type, the selection (start and end packed into one number), lock state.
Committed(s, e) == <<0, 0, 10 * Min(s, e) + Max(s, e), 0>>

\* One slot call on a TrackSelection node in machine state m: the machine
\* state after it and the emit() calls the slot makes.
SelectionSlot(m, slot, args) ==
  CASE slot = "slo_enableSelection" ->
         [sel |-> IF args[1] = 1 /\ ~m.enabled /\ m.state = "Dragging"
                  THEN IdleMachine
                  ELSE [m EXCEPT !.enabled = (args[1] = 1)],
          todo |-> <<>>]
    [] slot = "slo_startSelection" ->
         IF m.enabled /\ m.state \in {"Idle", "Dragging"}
         THEN [sel |-> [m EXCEPT !.state = "Dragging", !.start = args[1], !.end = args[1]],
               todo |-> <<>>]
         ELSE [sel |-> m, todo |-> <<>>]
    [] slot = "slo_moveSelection" ->
         IF m.enabled /\ m.state = "Dragging"
         THEN [sel |-> [m EXCEPT !.end = args[1]], todo |-> <<>>]
         ELSE [sel |-> m, todo |-> <<>>]
    [] slot = "slo_endSelection" ->
         IF m.enabled /\ m.state = "Dragging"
         THEN [sel |-> IdleMachine,
               todo |-> << <<"sig_setSelection", Committed(m.start, args[1])>> >>]
         ELSE [sel |-> m, todo |-> <<>>]
    [] slot = "slo_finishSelection" ->
         [sel |-> IF m.state = "Idle" THEN [m EXCEPT !.state = "Locked"] ELSE m,
          todo |-> DefaultSlot(slot, args)]
    [] slot = "slo_editSelection" ->
         [sel |-> IF m.state = "Locked" THEN [m EXCEPT !.state = "Idle"] ELSE m,
          todo |-> DefaultSlot(slot, args)]
    [] OTHER -> [sel |-> m, todo |-> DefaultSlot(slot, args)]

\* ------------------------------------------------- a re-entrant handler
\* A handler that publishes while it handles a broadcast: told to set its
\* view it announces the changed view (an upward event), told to redraw it
\* updates its children (a downward event); then it relays as the default.
ReentrantEmissions(slot, args) ==
  CASE slot = "slo_setView" -> << <<"sig_viewChanged", args>> >>
    [] slot = "slo_redraw" -> << <<"sig_update", args>> >>
    [] OTHER -> <<>>

DownwardSlots == {DownwardConnections[i][2] : i \in 1..Len(DownwardConnections)}

\* --------------------------------------------------------- the call stack
\* Mutant: a queued connection, emit() returns before any slot has run.
EmitFrameQueued(n, sig, args, receivers) ==
  [kind |-> "emit", node |-> n, name |-> sig, args |-> args,
   todo |-> receivers, pc |-> Len(receivers) + 1]

\* Mutant: a downward signal calls the slot of every node whose root is the
\* emitting node, connected or not.
EmitFrameToChildren(n, sig, args, receivers) ==
  [kind |-> "emit", node |-> n, name |-> sig, args |-> args,
   todo |-> IF \E i \in 1..Len(DownwardConnections) : DownwardConnections[i][1] = sig
            THEN LET i == CHOOSE j \in 1..Len(DownwardConnections) : DownwardConnections[j][1] = sig
                     IsChild(m) == root[m] = n
                     ch == SelectSeq([m \in 1..count |-> m], IsChild)
                 IN  [k \in 1..Len(ch) |-> <<ch[k], DownwardConnections[i][2]>>]
            ELSE receivers,
   pc |-> 1]

EmitFrame(n, sig, args, receivers) ==
  [kind |-> "emit", node |-> n, name |-> sig, args |-> args,
   todo |-> receivers, pc |-> 1]

SlotFrame(n, slot, args, body) ==
  [kind |-> "slot", node |-> n, name |-> slot, args |-> args,
   todo |-> body, pc |-> 1]

\* Mutant: a node that has relayed EnableSelection(false) keeps the later
\* StartSelection, MoveSelection and EndSelection to itself until it has
\* relayed EnableSelection(true).
HandlersGated(n, slot, args) ==
  CASE slot = "slo_enableSelection" ->
         {[sel |-> [sel[n] EXCEPT !.state = IF args[1] = 0 THEN "Gated" ELSE "NoMachine"],
           todo |-> DefaultSlot(slot, args)]}
    [] slot \in {"slo_startSelection", "slo_moveSelection", "slo_endSelection"} ->
         {[sel |-> sel[n],
           todo |-> IF sel[n].state = "Gated" THEN <<>> ELSE DefaultSlot(slot, args)]}
    [] OTHER ->
         {[sel |-> sel[n], todo |-> DefaultSlot(slot, args)]}

\* The slot calls of node n's class: for each way the call can go, the emit()
\* calls of its body and the selection machine after it.
Handlers(n, slot, args) ==
  CASE cls[n] = "TrackSelection" ->
         {SelectionSlot(sel[n], slot, args)}
    [] cls[n] = "Reentrant" ->
         {[sel |-> sel[n], todo |-> ReentrantEmissions(slot, args) \o DefaultSlot(slot, args)]}
    [] OTHER ->
         {[sel |-> sel[n], todo |-> DefaultSlot(slot, args)]}

Top == stack[Len(stack)]

Pop == SubSeq(stack, 1, Len(stack) - 1)

\* Mutant: an emit() made while another emit() is in progress ends the
\* emit() calls in progress: their remaining receivers are not called.
CallEndingOuter(f) ==
  Append([i \in 1..Len(stack) |->
            IF f.kind = "emit" /\ stack[i].kind = "emit"
            THEN [stack[i] EXCEPT !.pc = Len(stack[i].todo) + 1]
            ELSE IF i = Len(stack) THEN [stack[i] EXCEPT !.pc = @ + 1]
            ELSE stack[i]], f)

\* A call from the top frame: its program counter moves on, frame f runs.
Call(f) ==
  Append([stack EXCEPT ![Len(stack)].pc = @ + 1], f)

EmitEvent(n, sig, args) == [what |-> "emit", node |-> n, name |-> sig, args |-> args]
SlotEvent(n, slot, args) == [what |-> "slot", node |-> n, name |-> slot, args |-> args]

\* --------------------------------------------------------------------- Init
Init ==
  /\ count = 0
  /\ root = <<>>
  /\ conns = <<>>
  /\ attr = <<>>
  /\ cls = <<>>
  /\ sel = <<>>
  /\ detached = {}
  /\ stack = <<>>
  /\ origin = <<>>
  /\ burst = <<>>
  /\ trace = <<>>

\* ------------------------------------------------------------------ actions
\* Mutant: sig_zoomIn is connected to the parent's slo_zoomOut.
ConnectionsCrossed(n, p) ==
  [i \in 1..Len(UpwardConnections) |->
     <<n, UpwardConnections[i][1], p,
       IF UpwardConnections[i][1] = "sig_zoomIn" THEN "slo_zoomOut"
       ELSE UpwardConnections[i][2]>>]
  \o
  [i \in 1..Len(DownwardConnections) |->
     <<p, DownwardConnections[i][1], n, DownwardConnections[i][2]>>]

\* Mutant: the last downward connect() line is there twice.
ConnectionsTwice(n, p) ==
  [i \in 1..Len(UpwardConnections) |->
     <<n, UpwardConnections[i][1], p, UpwardConnections[i][2]>>]
  \o
  [i \in 1..Len(DownwardConnections) + 1 |->
     LET j == IF i > Len(DownwardConnections) THEN Len(DownwardConnections) ELSE i
     IN  <<p, DownwardConnections[j][1], n, DownwardConnections[j][2]>>]

\* Mutant: the constructor stops after the upward connections.
ConnectionsUpwardOnly(n, p) ==
  [i \in 1..Len(UpwardConnections) |->
     <<n, UpwardConnections[i][1], p, UpwardConnections[i][2]>>]

\* Mutant: the downward connections are made on self instead of self.root.
ConnectionsDownwardOnSelf(n, p) ==
  [i \in 1..Len(UpwardConnections) |->
     <<n, UpwardConnections[i][1], p, UpwardConnections[i][2]>>]
  \o
  [i \in 1..Len(DownwardConnections) |->
     <<n, DownwardConnections[i][1], n, DownwardConnections[i][2]>>]

\* Mutant: the sig_zoomIn connection is made the other way round, from
\* self.root's signal to self's slot.
ConnectionsReversed(n, p) ==
  [i \in 1..Len(UpwardConnections) |->
     IF UpwardConnections[i][1] = "sig_zoomIn"
     THEN <<p, "sig_zoomIn", n, "slo_zoomIn">>
     ELSE <<n, UpwardConnections[i][1], p, UpwardConnections[i][2]>>]
  \o
  [i \in 1..Len(DownwardConnections) |->
     <<p, DownwardConnections[i][1], n, DownwardConnections[i][2]>>]

\* The connect() calls of the constructor of node n with root p, in order:
\* <<sender, signal, receiver, slot>>.
Connections(n, p) ==
  [i \in 1..Len(UpwardConnections) |->
     <<n, UpwardConnections[i][1], p, UpwardConnections[i][2]>>]
  \o
  [i \in 1..Len(DownwardConnections) |->
     <<p, DownwardConnections[i][1], n, DownwardConnections[i][2]>>]

\* Mutant: connect() puts the new connection in front of the signal's list.
ConnectPrepending(cs, n, p) ==
  LET made == Connections(n, p)
  IN  [m \in DOMAIN cs |->
        IF m \in {n, p}
        THEN [sig \in Signals |->
                LET Mine(c) == c[1] = m /\ c[2] = sig
                    new == SelectSeq(made, Mine)
                IN  [i \in 1..Len(new) |-> <<new[i][3], new[i][4]>>] \o cs[m][sig]]
        ELSE cs[m]]

\* connect() appends to the sender's list of the signal.
Connect(cs, n, p) ==
  LET made == Connections(n, p)
  IN  [m \in DOMAIN cs |->
        IF m \in {n, p}
        THEN [sig \in Signals |->
                LET Mine(c) == c[1] = m /\ c[2] = sig
                    new == SelectSeq(made, Mine)
                IN  cs[m][sig] \o [i \in 1..Len(new) |-> <<new[i][3], new[i][4]>>]]
        ELSE cs[m]]

\* Mutant: root is stored on the class, every object sees the root given
\* to the latest construction.
TrackAbstractInitOnClass(c, a, p) ==
  /\ stack = <<>>
  /\ origin = <<>>
  /\ count + Cardinality(detached) < MaxNodes
  /\ LET n == count + 1
         fresh == [m \in 1..n |-> IF m = n THEN NoConnections ELSE conns[m]]
     IN  /\ count' = n
         /\ attr' = [m \in 1..n |-> IF m = n THEN Members(a) ELSE attr[m]]
         /\ root' = [m \in 1..n |-> p]
         /\ conns' = IF p # None THEN Connect(fresh, n, p) ELSE fresh
         /\ cls' = [m \in 1..n |-> IF m = n THEN c ELSE cls[m]]
         /\ sel' = [m \in 1..n |->
                      IF m = n
                      THEN IF c = "TrackSelection" THEN IdleMachine ELSE NoMachine
                      ELSE sel[m]]
  /\ UNCHANGED <<detached, stack, origin, burst, trace>>

\* __init__ of an object of class c with root p: the new node is count + 1.
\* No constructor runs inside a slot, so the stack is empty; the trace is
\* kept over a fixed set of objects, so the burst is closed.
TrackAbstractInit(c, a, p) ==
  /\ stack = <<>>
  /\ origin = <<>>
  /\ count + Cardinality(detached) < MaxNodes
  /\ LET n == count + 1
         fresh == [m \in 1..n |-> IF m = n THEN NoConnections ELSE conns[m]]
     IN  /\ count' = n
         /\ attr' = [m \in 1..n |-> IF m = n THEN Members(a) ELSE attr[m]]
         /\ root' = [m \in 1..n |-> IF m = n THEN p ELSE root[m]]
         /\ conns' = IF p # None THEN Connect(fresh, n, p) ELSE fresh
         /\ cls' = [m \in 1..n |-> IF m = n THEN c ELSE cls[m]]
         /\ sel' = [m \in 1..n |->
                      IF m = n
                      THEN IF c = "TrackSelection" THEN IdleMachine ELSE NoMachine
                      ELSE sel[m]]
  /\ UNCHANGED <<detached, stack, origin, burst, trace>>

\* TrackAbstract(name, ..., zoom, root=p)
Construct ==
  /\ stack = <<>>
  /\ origin = <<>>
  /\ \E p \in Nodes \cup {None} : \E a \in ConstructorArgs(count + 1) :
       TrackAbstractInit("TrackAbstract", a, p)

\* self.sig_X.emit(*args) called on node n from outside the tree (the input
\* layer, a control, the backend): emit() starts with the receivers connected
\* at that moment.
EmitAt(n, sig, args) ==
  /\ stack = <<>>
  /\ origin \in {<<>>, <<n, sig>>}
  /\ Len(burst) < MaxBurst
  /\ stack' = <<EmitFrame(n, sig, args, conns[n][sig])>>
  /\ origin' = <<n, sig>>
  /\ burst' = Append(burst, args)
  /\ trace' = Append(trace, EmitEvent(n, sig, args))
  /\ UNCHANGED objects

Emit ==
  /\ stack = <<>>
  /\ Len(burst) < MaxBurst
  /\ \E n \in Nodes : \E sig \in Signals :
       /\ origin \in {<<>>, <<n, sig>>}
       /\ \E args \in Payloads(sig) : EmitAt(n, sig, args)

\* emit() calls the next connected slot.
Deliver ==
  /\ stack # <<>>
  /\ Top.kind = "emit"
  /\ Top.pc <= Len(Top.todo)
  /\ LET r == Top.todo[Top.pc][1]
         slot == Top.todo[Top.pc][2]
     IN  \E h \in Handlers(r, slot, Top.args) :
           /\ stack' = Call(SlotFrame(r, slot, Top.args, h.todo))
           /\ sel' = [sel EXCEPT ![r] = h.sel]
           /\ trace' = Append(trace, SlotEvent(r, slot, Top.args))
  /\ UNCHANGED <<count, root, conns, attr, cls, detached, origin, burst>>

\* emit() has called every connected slot and returns.
EmitReturn ==
  /\ stack # <<>>
  /\ Top.kind = "emit"
  /\ Top.pc > Len(Top.todo)
  /\ stack' = Pop
  /\ UNCHANGED <<objects, origin, burst, trace>>

\* The slot body runs its next statement, self.sig_X.emit(*args).
SlotEmit ==
  /\ stack # <<>>
  /\ Top.kind = "slot"
  /\ Top.pc <= Len(Top.todo)
  /\ LET n == Top.node
         sig == Top.todo[Top.pc][1]
         args == Top.todo[Top.pc][2]
     IN  /\ stack' = Call(EmitFrame(n, sig, args, conns[n][sig]))
         /\ trace' = Append(trace, EmitEvent(n, sig, args))
  /\ UNCHANGED <<objects, origin, burst>>

\* The slot body is at its end and returns to the emit() that called it.
SlotReturn ==
  /\ stack # <<>>
  /\ Top.kind = "slot"
  /\ Top.pc > Len(Top.todo)
  /\ stack' = Pop
  /\ UNCHANGED <<objects, origin, burst, trace>>

\* The observer closes the burst: the trace starts again with the next
\* emission, which may be on any channel.  No program state changes.
Forget ==
  /\ stack = <<>>
  /\ origin # <<>>
  /\ origin' = <<>>
  /\ burst' = <<>>
  /\ trace' = <<>>
  /\ UNCHANGED <<objects, stack>>

Next ==
  \/ Construct
  \/ Emit
  \/ Deliver
  \/ EmitReturn
  \/ SlotEmit
  \/ SlotReturn
  \/ Forget

Spec == Init /\ [][Next]_vars

\* ----------------------------------------------------- the running thread
\* One emission from outside, traced on its own: the burst before it is
\* closed.
EmitOnce ==
  /\ stack = <<>>
  /\ origin = <<>>
  /\ \E n \in Nodes : \E sig \in Signals : \E args \in Payloads(sig) :
       EmitAt(n, sig, args)

NextOnce ==
  \/ Construct
  \/ EmitOnce
  \/ Deliver
  \/ EmitReturn
  \/ SlotEmit
  \/ SlotReturn
  \/ Forget

\* The one thread runs what it has begun: a slot that can be called is
\* called, a statement that can run runs, a call that can return returns.
\* Constructions and emissions from outside are up to the environment.
SpecFair ==
  /\ Init /\ [][NextOnce]_vars
  /\ WF_vars(Deliver)
  /\ WF_vars(EmitReturn)
  /\ WF_vars(SlotEmit)
  /\ WF_vars(SlotReturn)

\* ------------------------------------------------ a history of broadcasts
\* The four signals that drive the selection state machine of TrackSelection.
SelectionSignals ==
  {"sig_startSelection", "sig_moveSelection", "sig_endSelection", "sig_enableSelection"}

\* self.sig_X.emit(*args) called from outside on node n, after earlier
\* emissions of any of the four signals on the same node: here the burst is
\* the payloads emitted on node n, of whatever signal, and origin names the
\* node and the latest signal.
EmitNext ==
  /\ stack = <<>>
  /\ Len(burst) < MaxBurst
  /\ \E n \in Nodes : \E sig \in SelectionSignals :
       /\ origin \in {<<>>} \cup {<<n, earlier>> : earlier \in SelectionSignals}
       /\ \E args \in Payloads(sig) :
            /\ stack' = <<EmitFrame(n, sig, args, conns[n][sig])>>
            /\ origin' = <<n, sig>>
            /\ burst' = Append(burst, args)
            /\ trace' = Append(trace, EmitEvent(n, sig, args))
            /\ UNCHANGED objects

NextHistory ==
  \/ Construct
  \/ EmitNext
  \/ Deliver
  \/ EmitReturn
  \/ SlotEmit
  \/ SlotReturn
  \/ Forget

SpecHistory == Init /\ [][NextHistory]_vars

\* ------------------------------------------------------ re-entrant publish
\* An object of a subclass whose handlers publish while they handle.
ConstructReentrant ==
  /\ stack = <<>>
  /\ origin = <<>>
  /\ \E p \in Nodes \cup {None} : \E a \in ConstructorArgs(count + 1) :
       TrackAbstractInit("Reentrant", a, p)

NextReentrant ==
  \/ ConstructReentrant
  \/ Emit
  \/ Deliver
  \/ EmitReturn
  \/ SlotEmit
  \/ SlotReturn
  \/ Forget

SpecReentrant == Init /\ [][NextReentrant]_vars

\* ---------------------------------------------------------------- teardown
\* The connection list without the entries that call node n.
Disconnected(list, n) ==
  LET NotToN(c) == c[1] # n
  IN  SelectSeq(list, NotToN)

\* Node n unsubscribes from its parent: its slots are disconnected from the
\* parent's downward signals.  Constructions and teardowns together stay
\* within MaxNodes.
UnsubscribeNode(n) ==
  /\ stack = <<>>
  /\ origin = <<>>
  /\ count + Cardinality(detached) < MaxNodes
  /\ root[n] # None
  /\ n \notin detached
  /\ conns' = [conns EXCEPT ![root[n]] =
                 [sig \in Signals |->
                    IF sig \in DownwardSignals THEN Disconnected(@[sig], n) ELSE @[sig]]]
  /\ detached' = detached \cup {n}
  /\ UNCHANGED <<count, root, attr, cls, sel, stack, origin, burst, trace>>

Unsubscribe ==
  /\ stack = <<>>
  /\ origin = <<>>
  /\ \E n \in Nodes : UnsubscribeNode(n)

NextTeardown ==
  \/ Construct
  \/ Unsubscribe
  \/ Emit
  \/ Deliver
  \/ EmitReturn
  \/ SlotEmit
  \/ SlotReturn
  \/ Forget

SpecTeardown == Init /\ [][NextTeardown]_vars

\* ------------------------------------------------- the selection layer
\* The track's TrackSelection object, one per behaviour.
ConstructSelection ==
  /\ stack = <<>>
  /\ origin = <<>>
  /\ \A m \in Nodes : cls[m] # "TrackSelection"
  /\ \E p \in Nodes \cup {None} : \E a \in ConstructorArgs(count + 1) :
       TrackAbstractInit("TrackSelection", a, p)

\* The events that drive the selection state machine.
SelectionDownward ==
  {"sig_startSelection", "sig_moveSelection", "sig_endSelection", "sig_enableSelection"}

SelectionUpward == {"sig_finishSelection", "sig_editSelection"}

\* One selection event: the coordinator publishes a downward one at a tree
\* root, a control raises an upward one at a leaf.  Each is a burst of its
\* own.
EmitSelection ==
  /\ stack = <<>>
  /\ origin = <<>>
  /\ \E n \in Nodes : \E sig \in SelectionDownward \cup SelectionUpward :
       /\ sig \in SelectionDownward => root[n] = None
       /\ sig \in SelectionUpward => \A m \in Nodes : root[m] # n
       /\ \E args \in Payloads(sig) : EmitAt(n, sig, args)

NextSelection ==
  \/ Construct
  \/ ConstructSelection
  \/ EmitSelection
  \/ Deliver
  \/ EmitReturn
  \/ SlotEmit
  \/ SlotReturn
  \/ Forget

SpecSelection == Init /\ [][NextSelection]_vars


\* ===================================================== the claims' vocabulary
\* The event kinds: each kind K has the signal sig_K and the relay slot slo_K.
\* UpwardEvents flow from leaf to root, DownwardEvents from root to leaves.
UpwardEvents ==
  { <<"sig_mousePress", "slo_mousePress">>, <<"sig_mouseRelease", "slo_mouseRelease">>,
    <<"sig_mouseMove", "slo_mouseMove">>, <<"sig_mouseDoubleClick", "slo_mouseDoubleClick">>,
    <<"sig_keyEnter", "slo_keyEnter">>, <<"sig_keyRelease", "slo_keyRelease">>,
    <<"sig_playpause", "slo_playpause">>, <<"sig_zoomIn", "slo_zoomIn">>,
    <<"sig_zoomOut", "slo_zoomOut">>, <<"sig_analyze", "slo_analyze">>,
    <<"sig_finishSelection", "slo_finishSelection">>, <<"sig_editSelection", "slo_editSelection">>,
    <<"sig_selectionChange", "slo_selectionChange">>, <<"sig_skipForward", "slo_skipForward">>,
    <<"sig_skipBackward", "slo_skipBackward">>, <<"sig_delete", "slo_delete">>,
    <<"sig_requestMark", "slo_requestMark">>, <<"sig_requestWaveform", "slo_requestWaveform">>,
    <<"sig_viewChanged", "slo_viewChanged">> }

DownwardEvents ==
  { <<"sig_redraw", "slo_redraw">>, <<"sig_startSelection", "slo_startSelection">>,
    <<"sig_moveSelection", "slo_moveSelection">>, <<"sig_endSelection", "slo_endSelection">>,
    <<"sig_enableSelection", "slo_enableSelection">>, <<"sig_setSelection", "slo_setSelection">>,
    <<"sig_setMark", "slo_setMark">>, <<"sig_addWaveform", "slo_addWaveform">>,
    <<"sig_setView", "slo_setView">>, <<"sig_update", "slo_update">>,
    <<"sig_setPlaying", "slo_setPlaying">> }

EventKinds == UpwardEvents \cup DownwardEvents

UpwardSignalNames == {k[1] : k \in UpwardEvents}
DownwardSignalNames == {k[1] : k \in DownwardEvents}

IsUpward(sig) == sig \in UpwardSignalNames
IsDownward(sig) == sig \in DownwardSignalNames

SlotOfKind == [sig \in {k[1] : k \in EventKinds} |-> (CHOOSE k \in EventKinds : k[1] = sig)[2]]
SignalOfKind == [slot \in {k[2] : k \in EventKinds} |-> (CHOOSE k \in EventKinds : k[2] = slot)[1]]

SlotNamed(sig) == SlotOfKind[sig]
SignalNamed(slot) == SignalOfKind[slot]

RECURSIVE Ancestors(_)
Ancestors(n) == IF root[n] = None THEN {} ELSE {root[n]} \cup Ancestors(root[n])

Descendants(n) == {m \in Nodes : n \in Ancestors(m)}

Depth(n) == Cardinality(Ancestors(n))

\* The children of n in the order of their construction.
Children(n) ==
  LET IsChild(m) == root[m] = n
  IN  SelectSeq([i \in 1..count |-> i], IsChild)

\* The slot calls node n has received, and the emit() calls it has made, in
\* order, each <<name, arguments>>.
Received(n) ==
  LET AtN(e) == e.what = "slot" /\ e.node = n
      s == SelectSeq(trace, AtN)
  IN  [i \in 1..Len(s) |-> <<s[i].name, s[i].args>>]

Emitted(n) ==
  LET AtN(e) == e.what = "emit" /\ e.node = n
      s == SelectSeq(trace, AtN)
  IN  [i \in 1..Len(s) |-> <<s[i].name, s[i].args>>]

\* The burst as a node on its relay path sees it under the given name.
Expected(name) == [i \in 1..Len(burst) |-> <<name, burst[i]>>]

Quiescent == stack = <<>>

\* The nodes an emission of sig at n is relayed to.
RelayPath(n, sig) == IF IsUpward(sig) THEN Ancestors(n) ELSE Descendants(n)

\* ================================================================== claims

\* C1: an upward kind emitted at a node (a leaf in particular) calls the
\* matching relay slot slo_K exactly once per emission at every ancestor, the
\* root included, and every ancestor emits sig_K exactly once per emission
\* with the payload unmodified: once the emission has returned, each
\* ancestor has received and emitted exactly the burst, and nothing else.
C1_UpwardReachesRoot ==
  (Quiescent /\ origin # <<>> /\ IsUpward(origin[2])) =>
    \A a \in Ancestors(origin[1]) :
      /\ Received(a) = Expected(SlotNamed(origin[2]))
      /\ Emitted(a) = Expected(origin[2])

\* A three-field upward kind emitted at a leaf of depth 2 has returned.
C1_Witness ==
  /\ Quiescent
  /\ origin # <<>>
  /\ origin[2] = "sig_requestWaveform"
  /\ Depth(origin[1]) = 2
  /\ Descendants(origin[1]) = {}
  /\ burst = << <<2, 3, 4>> >>
  /\ Emitted(root[root[origin[1]]]) = << <<"sig_requestWaveform", <<2, 3, 4>>>> >>

\* C2: a downward kind emitted at a node (the root in particular) is received
\* exactly once per emission, payload unmodified, by every descendant,
\* whatever the branching: none is skipped, none receives it twice.
C2_DownwardReachesAll ==
  (Quiescent /\ origin # <<>> /\ IsDownward(origin[2])) =>
    \A d \in Descendants(origin[1]) :
      Received(d) = Expected(SlotNamed(origin[2]))

\* A four-field downward kind emitted at a root with two children and a
\* grandchild has returned.
C2_Witness ==
  /\ Quiescent
  /\ origin # <<>>
  /\ origin[2] = "sig_setSelection"
  /\ root[origin[1]] = None
  /\ Len(Children(origin[1])) = 2
  /\ Cardinality(Descendants(origin[1])) = 3
  /\ burst = << <<1, 2, 3, 4>> >>
  /\ \A d \in Descendants(origin[1]) :
       Received(d) = << <<"slo_setSelection", <<1, 2, 3, 4>>>> >>

\* The entries of a connection list that call node n.
Calling(list, n) ==
  LET ToN(c) == c[1] = n
  IN  SelectSeq(list, ToN)

\* Node n is wired to its parent: each upward signal of n is connected to the
\* parent's slot of the same name and to nothing else, and each downward
\* signal of the parent is connected to n's slot of the same name, once.
Wired(n) ==
  /\ root[n] \in Nodes
  /\ LET mine == conns[n]
         theirs == conns[root[n]]
     IN  /\ \A k \in UpwardEvents : mine[k[1]] = << <<root[n], k[2]>> >>
         /\ \A k \in DownwardEvents : Calling(theirs[k[1]], n) = << <<n, k[2]>> >>

\* Node n is a root: its constructor connected nothing, so its upward signals
\* have no receiver and no downward signal of any node calls it.
Unwired(n) ==
  /\ root[n] = None
  /\ \A k \in UpwardEvents : conns[n][k[1]] = <<>>
  /\ \A m \in Nodes : \A k \in DownwardEvents : Calling(conns[m][k[1]], n) = <<>>

\* C3: every constructed node is either wired in full to its parent, in both
\* directions, or has no parent and no connection made by its constructor;
\* no node is partly wired.
C3_WiredOrRoot ==
  \A n \in Nodes : Wired(n) \/ Unwired(n)

\* A root and a node wired to it, sharing the parent with a sibling.
C3_Witness ==
  /\ count >= 3
  /\ Unwired(1)
  /\ Wired(2)
  /\ Wired(3)
  /\ root[2] = 1
  /\ root[3] = 1

\* The payloads node n has received, in order.
ReceivedPayloads(n) ==
  LET AtN(e) == e.what = "slot" /\ e.node = n
      s == SelectSeq(trace, AtN)
  IN  [i \in 1..Len(s) |-> s[i].args]

IsPrefix(s, t) == Len(s) <= Len(t) /\ s = SubSeq(t, 1, Len(s))

\* C4: relaying never reorders or drops.  At every moment each node on the
\* relay path has received a prefix of the payloads emitted so far, at most
\* the emission in progress is still missing, and once the emission has
\* returned it has received them all, in the order they were emitted.
C4_OrderKept ==
  origin # <<>> =>
    \A m \in RelayPath(origin[1], origin[2]) :
      LET got == ReceivedPayloads(m)
      IN  /\ IsPrefix(got, burst)
          /\ Len(got) >= Len(burst) - 1
          /\ Quiescent => got = burst

\* Two different payloads emitted one after the other have both arrived,
\* in order, two levels away.
C4_Witness ==
  /\ Quiescent
  /\ origin # <<>>
  /\ burst = << <<2>>, <<1>> >>
  /\ \E m \in RelayPath(origin[1], origin[2]) :
       /\ root[m] # origin[1]
       /\ root[origin[1]] # m
       /\ ReceivedPayloads(m) = << <<2>>, <<1>> >>

\* The receivers a relay one level further in the direction of sig has.
OneLevelFurther(n, sig) ==
  IF IsUpward(sig)
  THEN IF root[n] = None THEN <<>> ELSE << <<root[n], SlotNamed(sig)>> >>
  ELSE [i \in 1..Len(Children(n)) |-> <<Children(n)[i], SlotNamed(sig)>>]

\* C5: every default slot slo_K emits exactly one signal, sig_K and no other,
\* with the arguments it was called with, in the same positions, and that
\* emission goes one level further in the same direction: to the parent for
\* an upward kind, to the children for a downward kind.
C5_RelaySameKind ==
  /\ \A i \in 1..Len(stack) :
       /\ stack[i].kind = "slot" =>
            stack[i].todo = << <<SignalNamed(stack[i].name), stack[i].args>> >>
       /\ stack[i].kind = "emit" =>
            stack[i].todo = OneLevelFurther(stack[i].node, stack[i].name)
  /\ \A i \in 1..Len(trace) :
       /\ (trace[i].what = "slot" /\ i < Len(trace)) =>
            trace[i + 1] = EmitEvent(trace[i].node, SignalNamed(trace[i].name), trace[i].args)
       /\ trace[i].what = "emit" =>
            \/ /\ i > 1
               /\ trace[i - 1] = SlotEvent(trace[i].node, SlotNamed(trace[i].name), trace[i].args)
            \/ /\ origin = <<trace[i].node, trace[i].name>>
               /\ (i > 1 => trace[i - 1].what = "emit")

\* slo_setSelection on a node with a parent and a child has relayed its four
\* fields to the child.
C5_Witness ==
  /\ Len(trace) >= 4
  /\ trace[2] = SlotEvent(trace[2].node, "slo_setSelection", <<2, 3, 4, 5>>)
  /\ trace[3] = EmitEvent(trace[2].node, "sig_setSelection", <<2, 3, 4, 5>>)
  /\ trace[4].what = "slot"
  /\ root[trace[4].node] = trace[2].node

\* C6: delivery is synchronous.  When an emit() is about to return, every
\* node its signal is relayed to has already received the payload of that
\* emission; and between two emissions, when the stack is empty, nothing is
\* pending: every node on the relay path has received every payload.
C6_Synchronous ==
  /\ (stack # <<>> /\ Top.kind = "emit" /\ Top.pc > Len(Top.todo)) =>
       \A m \in RelayPath(Top.node, Top.name) :
         /\ Len(Received(m)) = Len(burst)
         /\ Received(m)[Len(burst)] = <<SlotNamed(Top.name), Top.args>>
  /\ (Quiescent /\ origin # <<>>) =>
       \A m \in RelayPath(origin[1], origin[2]) :
         Len(Received(m)) = Len(burst)

\* A nested emit() (the relay of a child of the emitting root) is about to
\* return and its own child has received the payload.
C6_Witness ==
  /\ Len(stack) = 3
  /\ Top.kind = "emit"
  /\ Top.pc > Len(Top.todo)
  /\ Top.todo # <<>>
  /\ IsDownward(Top.name)
  /\ \E m \in Descendants(Top.node) : Received(m) = << <<SlotNamed(Top.name), Top.args>> >>

\* The emission at origin has no subscriber: an upward kind at a node
\* without parent, or a downward kind at a node without children.
NoSubscriber ==
  /\ origin # <<>>
  /\ \/ IsUpward(origin[2]) /\ root[origin[1]] = None
     \/ IsDownward(origin[2]) /\ Children(origin[1]) = <<>>

\* C7: publishing with zero subscribers is a no-op.  Such an emission calls
\* no slot (the trace holds the emissions themselves and nothing else, the
\* stack never grows beyond the one emit() frame) and no step of it changes
\* any node: parent link, connections, members.
C7_NoSubscriberNoOp ==
  [][ NoSubscriber' =>
        /\ UNCHANGED objects
        /\ trace' = [i \in 1..Len(burst') |-> EmitEvent(origin'[1], origin'[2], burst'[i])]
        /\ Len(stack') <= 1
        /\ \A i \in 1..Len(stack') : stack'[i].todo = <<>> ]_vars

\* A downward kind emitted at a leaf that has a parent has returned.
C7_Witness ==
  /\ Quiescent
  /\ NoSubscriber
  /\ origin[2] = "sig_redraw"
  /\ root[origin[1]] # None
  /\ trace = << EmitEvent(origin[1], "sig_redraw", <<2>>) >>

\* The payloads node n has received through the slot of the given name.
ReceivedThrough(n, slot) ==
  LET Hit(e) == e.what = "slot" /\ e.node = n /\ e.name = slot
      s == SelectSeq(trace, Hit)
  IN  [i \in 1..Len(s) |-> s[i].args]

\* C8: re-entrant publish starves nobody.  Where handlers publish further
\* events of either direction while they handle a downward broadcast, every
\* child of the broadcasting node, and every descendant below, has still
\* received the broadcast exactly once per emission when it has returned.
C8_ReentrantKeepsRound ==
  (Quiescent /\ origin # <<>> /\ IsDownward(origin[2])) =>
    \A d \in Descendants(origin[1]) :
      ReceivedThrough(d, SlotNamed(origin[2])) = burst

\* The first child of the broadcasting node published an upward event from
\* its handler, the parent got it, and the second child got the broadcast.
C8_Witness ==
  /\ Quiescent
  /\ origin # <<>>
  /\ origin[2] = "sig_setView"
  /\ burst = << <<2>> >>
  /\ Len(Children(origin[1])) = 2
  /\ Emitted(Children(origin[1])[1]) =
       << <<"sig_viewChanged", <<2>>>>, <<"sig_setView", <<2>>>> >>
  /\ Received(origin[1]) = << <<"slo_viewChanged", <<2>>>>, <<"slo_viewChanged", <<2>>>> >>
  /\ Received(Children(origin[1])[2]) = << <<"slo_setView", <<2>>>> >>

DownwardSlotNames == {k[2] : k \in DownwardEvents}

\* C9: after a node has unsubscribed, what its former parent publishes is
\* not delivered to it: no downward slot of the node is called.
C9_NoDeliveryAfterUnsubscribe ==
  \A i \in 1..Len(trace) :
    (trace[i].what = "slot" /\ trace[i].node \in detached) =>
      trace[i].name \notin DownwardSlotNames

\* The former parent of an unsubscribed node has broadcast to its two
\* children; the one still subscribed received, the other did not.
C9_Witness ==
  /\ Quiescent
  /\ origin # <<>>
  /\ IsDownward(origin[2])
  /\ burst # <<>>
  /\ \E n \in detached : \E m \in Nodes \ detached :
       /\ root[n] = origin[1]
       /\ root[m] = origin[1]
       /\ Received(n) = <<>>
       /\ Received(m) = Expected(SlotNamed(origin[2]))

\* Node n has received no StartSelection in the history the trace holds.
NoPriorStart(n) ==
  \A j \in 1..Len(trace) :
    ~(trace[j].what = "slot" /\ trace[j].node = n /\ trace[j].name = "slo_startSelection")

\* emit() is about to call slo_moveSelection or slo_endSelection of a node
\* that has received no StartSelection before.
MoveOrEndWithoutStart ==
  /\ stack # <<>>
  /\ Top.kind = "emit"
  /\ Top.pc <= Len(Top.todo)
  /\ Top.todo[Top.pc][2] \in {"slo_moveSelection", "slo_endSelection"}
  /\ NoPriorStart(Top.todo[Top.pc][1])

\* The slot events of MoveSelection or EndSelection on a node that had
\* received no StartSelection before them.
MoveOrEndCallsWithoutStart ==
  {i \in 1..Len(trace) :
     /\ trace[i].what = "slot"
     /\ trace[i].name \in {"slo_moveSelection", "slo_endSelection"}
     /\ \A j \in 1..(i - 1) :
          ~(trace[j].what = "slot" /\ trace[j].node = trace[i].node
            /\ trace[j].name = "slo_startSelection")}

\* C10 as stated: MoveSelection or EndSelection received with no prior
\* StartSelection is a no-op, nothing changes and the slot emits no event.
C10_MoveEndWithoutStartSilent ==
  [][ MoveOrEndWithoutStart =>
        /\ UNCHANGED objects
        /\ Top'.kind = "slot"
        /\ Top'.todo = <<>> ]_vars

\* C10, amended: MoveSelection or EndSelection received by a TrackAbstract
\* node with no prior StartSelection changes no state of any node (parent
\* link, connections, members), and the one event the node emits is the
\* relay of what it received: the signal of the same kind with the same
\* argument, emitted once, at once, to its children.  No other event is
\* emitted: whatever the node emits afterwards is again the relay of what
\* it has just received, so it commits no selection (no SetSelection) of
\* its own.
C10_MoveEndWithoutStartRelayedOnly ==
  /\ [][ MoveOrEndWithoutStart =>
          /\ UNCHANGED objects
          /\ Top'.kind = "slot"
          /\ Top'.node = Top.todo[Top.pc][1]
          /\ Top'.name = Top.todo[Top.pc][2]
          /\ Top'.todo = << <<SignalNamed(Top'.name), Top.args>> >> ]_vars
  /\ [](\A i \in MoveOrEndCallsWithoutStart :
          /\ i < Len(trace) =>
                trace[i + 1] = EmitEvent(trace[i].node, SignalNamed(trace[i].name), trace[i].args)
          /\ \A j \in (i + 2)..Len(trace) :
                (trace[j].what = "emit" /\ trace[j].node = trace[i].node) =>
                  /\ trace[j - 1].what = "slot"
                  /\ trace[j - 1].node = trace[i].node
                  /\ trace[j].name = SignalNamed(trace[j - 1].name)
                  /\ trace[j].args = trace[j - 1].args)

\* The root emitted an EndSelection as the first event; the node below it,
\* which never received a StartSelection, received it and relayed it to its
\* own child, and no node has changed.
C10_Witness ==
  /\ Quiescent
  /\ root = <<None, 1, 2>>
  /\ trace = << EmitEvent(1, "sig_endSelection", <<2>>),
                SlotEvent(2, "slo_endSelection", <<2>>),
                EmitEvent(2, "sig_endSelection", <<2>>),
                SlotEvent(3, "slo_endSelection", <<2>>),
                EmitEvent(3, "sig_endSelection", <<2>>) >>
  /\ cls[2] = "TrackAbstract"
  /\ \E a \in ConstructorArgs(2) : attr[2] = Members(a)

\* The nodes that are neither node n, nor above it, nor below it: its
\* siblings, their subtrees, the other branches and the other trees.
Outside(n) == Nodes \ ({n} \cup Ancestors(n) \cup Descendants(n))

\* C11: strict directionality.  Whatever an emission of an upward kind at a
\* node sets off, the slots called are slots of the node's ancestors only;
\* for a downward kind, of its descendants only.  The emitting node itself,
\* the nodes on the other side of it and the nodes off its line (siblings
\* and their subtrees, other trees) receive nothing; and each emit() in
\* progress, relayed ones included, has receivers of its own node's
\* ancestors or descendants only.
C11_StrictDirection ==
  /\ origin # <<>> =>
       \A i \in 1..Len(trace) :
         trace[i].what = "slot" =>
           /\ trace[i].node # origin[1]
           /\ trace[i].node \notin Outside(origin[1])
           /\ IsUpward(origin[2]) => trace[i].node \in Ancestors(origin[1])
           /\ IsDownward(origin[2]) => trace[i].node \in Descendants(origin[1])
  /\ \A i \in 1..Len(stack) :
       stack[i].kind = "emit" =>
         \A j \in 1..Len(stack[i].todo) :
           /\ stack[i].todo[j][1] # stack[i].node
           /\ IsUpward(stack[i].name) => stack[i].todo[j][1] \in Ancestors(stack[i].node)
           /\ IsDownward(stack[i].name) => stack[i].todo[j][1] \in Descendants(stack[i].node)

\* An upward kind emitted at a node that has a parent, a sibling and a child
\* has returned: the parent received it, the sibling and the child did not.
C11_Witness ==
  /\ Quiescent
  /\ origin # <<>>
  /\ IsUpward(origin[2])
  /\ burst # <<>>
  /\ root[origin[1]] # None
  /\ Children(origin[1]) # <<>>
  /\ Len(Children(root[origin[1]])) = 2
  /\ Received(root[origin[1]]) = Expected(SlotNamed(origin[2]))
  /\ \A m \in Nodes \ {root[origin[1]]} : Received(m) = <<>>

\* The number of slot calls node n has received among the first i events.
SlotCallsUpTo(n, i) ==
  Cardinality({j \in 1..i : trace[j].what = "slot" /\ trace[j].node = n})

\* Nodes are numbered as they are constructed: of two children of one node
\* the one with the smaller number was constructed, and connected, first.
EarlierSiblings(m) == {s \in 1..(m - 1) : root[s] = root[m]}

\* C12: a downward broadcast reaches the children of a node in the order of
\* their construction, and a child's whole subtree before the next child.
\* At the moment a node receives the k-th emission, every sibling
\* constructed before it, and every node below such a sibling, has already
\* received the k-th emission.
C12_SiblingOrder ==
  (origin # <<>> /\ IsDownward(origin[2])) =>
    \A i \in 1..Len(trace) :
      trace[i].what = "slot" =>
        LET m == trace[i].node
            k == SlotCallsUpTo(m, i)
        IN  \A s \in EarlierSiblings(m) :
              \A d \in {s} \cup Descendants(s) : SlotCallsUpTo(d, i) >= k

\* A root broadcast to two children, the first of which has a child that
\* was constructed last of all: first child, its child, second child.
C12_Witness ==
  /\ Quiescent
  /\ origin # <<>>
  /\ IsDownward(origin[2])
  /\ Len(burst) = 1
  /\ count = 4
  /\ Children(origin[1]) = <<2, 3>>
  /\ Children(2) = <<4>>
  /\ [i \in 1..Len(trace) |-> trace[i].node] = <<1, 2, 2, 4, 4, 3, 3>>
  /\ trace[6].what = "slot"

\* The number of slot calls in the trace.
SlotCalls == Cardinality({i \in 1..Len(trace) : trace[i].what = "slot"})

\* The relay-slot calls one emission on the channel origin is to cause: the
\* depth of the node for an upward kind, the number of its descendants for
\* a downward kind (with no emission traced: none).
RelaysPerEmission ==
  IF origin = <<>> THEN 0
  ELSE IF IsUpward(origin[2]) THEN Depth(origin[1])
  ELSE Cardinality(Descendants(origin[1]))

\* C13: every emission terminates, after exactly as many relay-slot calls as
\* the node has ancestors (upward kind) or descendants (downward kind).  The
\* slot calls never exceed that number per emission, and whenever a call is
\* in progress the stack empties again with exactly that number per
\* emission made.
C13_EmissionTerminates ==
  /\ [](SlotCalls <= Len(burst) * RelaysPerEmission)
  /\ (stack # <<>>) ~> (Quiescent /\ SlotCalls = Len(burst) * RelaysPerEmission)

\* An upward emission at a leaf of depth 3 has returned after three slot
\* calls.
C13_Witness ==
  /\ Quiescent
  /\ origin # <<>>
  /\ IsUpward(origin[2])
  /\ Len(burst) = 1
  /\ Depth(origin[1]) = 3
  /\ SlotCalls = 3

\* The node reached from n by k steps along the parent link, None when the
\* links end before.
RECURSIVE Climb(_, _)
Climb(n, k) == IF n = None \/ k = 0 THEN n ELSE Climb(root[n], k - 1)

\* The parent relation has no cycle: from every node the parent links end
\* within as many steps as there are nodes.
Forest == \A n \in Nodes : Climb(n, count) = None

\* The nodes that node n's upward signals call.
Parents(n) ==
  UNION {{conns[n][sig][j][1] : j \in 1..Len(conns[n][sig])} : sig \in UpwardSignals}

\* C14: the parent link is fixed at construction and the nodes form a
\* forest.  No step changes self.root of an existing node; self.root is
\* set only by a constructor step, on the new node, to a node that already
\* exists or to None; the upward signals of a node call at most one node,
\* that parent; and after every step the parent relation is acyclic.
C14_ParentFixedForest ==
  [][ /\ \A n \in Nodes : root'[n] = root[n]
      /\ root' # root =>
            /\ stack = <<>>
            /\ count' = count + 1
            /\ root'[count'] \in Nodes \cup {None}
      /\ \A n \in 1..count' :
            /\ Cardinality(Parents(n)') <= 1
            /\ Parents(n)' \subseteq {root'[n]}
      /\ Forest' ]_vars

\* Four nodes in a chain and a branch, after an emission that every one of
\* them has relayed or received.
C14_Witness ==
  /\ Quiescent
  /\ root = <<None, 1, 2, 2>>
  /\ origin # <<>>
  /\ origin[1] = 1
  /\ SlotCalls = 3
  /\ Parents(4) = {2}
  /\ Forest

\* What a node below the emitting node is to have received when all that
\* the emitting node has emitted was relayed: for each emission the slot of
\* the same kind with the same arguments, in the order of the emissions.
RelayedHistory(n) ==
  LET e == Emitted(n)
  IN  [i \in 1..Len(e) |-> <<SlotNamed(e[i][1]), e[i][2]>>]

\* C15: default relaying does not depend on what the node has relayed
\* before and is never gated.  Whatever sequence of EnableSelection,
\* StartSelection, MoveSelection and EndSelection a node emits, every slot
\* call on a node below it is followed at once by the emission of the same
\* kind with the same arguments, and when the emissions have returned every
\* descendant has received every one of them, in order.
C15_RelayUngated ==
  /\ \A i \in 1..Len(stack) :
       stack[i].kind = "slot" =>
         stack[i].todo = << <<SignalNamed(stack[i].name), stack[i].args>> >>
  /\ \A i \in 1..(Len(trace) - 1) :
       trace[i].what = "slot" =>
         trace[i + 1] = EmitEvent(trace[i].node, SignalNamed(trace[i].name), trace[i].args)
  /\ (Quiescent /\ origin # <<>>) =>
       /\ Len(Emitted(origin[1])) = Len(burst)
       /\ \A d \in Descendants(origin[1]) : Received(d) = RelayedHistory(origin[1])

\* A node relayed EnableSelection(false) to its child and then relayed a
\* StartSelection to it as well.
C15_Witness ==
  /\ Quiescent
  /\ origin # <<>>
  /\ Emitted(origin[1]) = << <<"sig_enableSelection", <<0>>>>, <<"sig_startSelection", <<2>>>> >>
  /\ \E d \in Descendants(origin[1]) :
       /\ root[d] # origin[1]
       /\ Emitted(root[d]) = Emitted(origin[1])
       /\ Received(d) = << <<"slo_enableSelection", <<0>>>>, <<"slo_startSelection", <<2>>>> >>

\* The snapshot attributes of a node.
SnapshotFields ==
  {"name", "state", "selections", "marks", "cursorposition", "height",
   "width", "smptopix", "zoom"}

\* Node n holds, under each snapshot attribute, the argument of that name
\* its constructor was given.
HoldsSnapshot(n) ==
  /\ DOMAIN attr[n] = SnapshotFields
  /\ \E a \in ConstructorArgs(n) : \A f \in SnapshotFields : attr[n][f] = a[f]

\* C16: the constructor stores name, state, selections, marks,
\* cursorposition, height, width, smptopix and zoom as given, and nothing
\* modifies them afterwards.  In every state every node holds the values its
\* constructor was given, and no step (a slot call, an emit(), a return, the
\* construction of another node) changes an attribute or self.root of an
\* existing node.
C16_AttributesKept ==
  /\ [](\A n \in Nodes : HoldsSnapshot(n))
  /\ [][\A n \in Nodes : attr'[n] = attr[n] /\ root'[n] = root[n]]_vars

\* A node with a parent and a child has relayed two emissions of its
\* parent; it holds the nine values its constructor stored.
C16_Witness ==
  /\ Quiescent
  /\ origin # <<>>
  /\ origin[1] = 1
  /\ root = <<None, 1, 2>>
  /\ Len(Emitted(2)) = 2
  /\ Len(Received(3)) = 2
  /\ attr[2] = [name |-> 20, state |-> 21, selections |-> 22, marks |-> 24,
                cursorposition |-> 25, height |-> 26, width |-> 27,
                smptopix |-> 28, zoom |-> 29]

====
